---- MODULE Spec2Model ----
(***************************************************************************)
(* launchpad: the Entity derive macro (derive/src) and the grouping helper *)
(* it uses (utilities/src/iterable.rs).                                    *)
(*                                                                         *)
(* derive_sql takes a parsed record declaration (syn::DeriveInput), turns  *)
(* it into a DeriveEntity descriptor (TryFrom<DeriveInput>) and the        *)
(* descriptor into three generated items (TryFrom<DeriveEntity> for        *)
(* TokenStream): the <Entity>Repo trait, its impl for the Postgres pool    *)
(* and its impl for a Mutex-guarded transaction.                           *)
(*                                                                         *)
(* Representation.  An Ident (syn::Ident) is the sequence of its           *)
(* characters; a String is a TLA+ string; Ident::to_string is Str.  An     *)
(* Option is a sequence of length at most one; a Result is a record with   *)
(* an ok flag.  A TokenStream is kept as the tree quote! builds: items,    *)
(* functions, arguments, the query literal, the bind calls, the fetch call.*)
(* A HashMap is a function on its key set; the order its iterator yields   *)
(* is not determined by its contents and is chosen per iteration.          *)
(***************************************************************************)
EXTENDS Integers, Sequences, FiniteSets, TLC

\* The largest number of fields of a record declaration drawn by Init.
MaxFields == 3

\* How many times the macro is expanded on one declaration under SpecTwice.
MaxRuns == 2

-----------------------------------------------------------------------------
(* Option and Result *)

None == << >>

Some(v) == << v >>

IsSome(o) == Len(o) = 1

Unwrap(o) == o[1]

unwrap_or(o, d) == IF IsSome(o) THEN o[1] ELSE d

Ok(v) == [ok |-> TRUE, val |-> v]

Err(e) == [ok |-> FALSE, err |-> e]

Range(s) == {s[i] : i \in 1..Len(s)}

-----------------------------------------------------------------------------
(* Characters, identifiers and strings *)

UpperCase ==
    << "A", "B", "C", "D", "E", "F", "G", "H", "I", "J", "K", "L", "M",
       "N", "O", "P", "Q", "R", "S", "T", "U", "V", "W", "X", "Y", "Z" >>

LowerCase ==
    << "a", "b", "c", "d", "e", "f", "g", "h", "i", "j", "k", "l", "m",
       "n", "o", "p", "q", "r", "s", "t", "u", "v", "w", "x", "y", "z" >>

Digits == << "0", "1", "2", "3", "4", "5", "6", "7", "8", "9" >>

IsUpper(c) == \E i \in 1..Len(UpperCase) : UpperCase[i] = c

IsLower(c) == \E i \in 1..Len(LowerCase) : LowerCase[i] = c

ToLower(c) ==
    IF IsUpper(c)
    THEN LowerCase[CHOOSE i \in 1..Len(UpperCase) : UpperCase[i] = c]
    ELSE c

\* Ident::to_string / Display: the characters, concatenated.
RECURSIVE Str(_)
Str(chars) ==
    IF chars = << >> THEN "" ELSE Str(SubSeq(chars, 1, Len(chars) - 1)) \o chars[Len(chars)]

\* usize Display, as format!("${}", i + 1) renders it: decimal, no padding.
RECURSIVE UsizeToString(_)
UsizeToString(n) ==
    IF n < 10 THEN Digits[n + 1]
    ELSE UsizeToString(n \div 10) \o Digits[(n % 10) + 1]

\* Itertools::join: the items separated by sep.
RECURSIVE Join(_, _)
Join(items, sep) ==
    IF items = << >> THEN ""
    ELSE IF Len(items) = 1 THEN items[1]
    ELSE Join(SubSeq(items, 1, Len(items) - 1), sep) \o sep \o items[Len(items)]

\* str::ends_with on the characters of an identifier.
EndsWith(chars, suffix) ==
    /\ Len(suffix) <= Len(chars)
    /\ SubSeq(chars, Len(chars) - Len(suffix) + 1, Len(chars)) = suffix

\* Casing::to_case(Case::Snake): a word starts after an underscore, at a
\* lower-to-upper step and at the last capital of a run of capitals that a
\* lower-case letter follows; the words are lower-cased and joined by "_".
SnakeBoundary(chars, i) ==
    /\ i > 1
    /\ IsUpper(chars[i])
    /\ \/ IsLower(chars[i - 1])
       \/ IsUpper(chars[i - 1]) /\ i < Len(chars) /\ IsLower(chars[i + 1])

RECURSIVE SnakeChars(_, _)
SnakeChars(chars, i) ==
    IF i = 0 THEN << >>
    ELSE SnakeChars(chars, i - 1)
           \o (IF SnakeBoundary(chars, i) THEN << "_" >> ELSE << >>)
           \o << ToLower(chars[i]) >>

to_case_snake(chars) == SnakeChars(chars, Len(chars))

-----------------------------------------------------------------------------
(* The record declaration handed to the macro (syn::DeriveInput) *)

\* field identifiers, by position
Id_entity_id == << "e", "n", "t", "i", "t", "y", "_", "i", "d" >>

Id_name == << "n", "a", "m", "e" >>

Id_version == << "v", "e", "r", "s", "i", "o", "n" >>

Id_color == << "c", "o", "l", "o", "r" >>

Id_description == << "d", "e", "s", "c", "r", "i", "p", "t", "i", "o", "n" >>

FieldNames == << Id_entity_id, Id_name, Id_version, Id_color, Id_description >>

\* record identifiers and the display-name override
Id_Widget == << "W", "i", "d", "g", "e", "t" >>

Id_MyEntity == << "M", "y", "E", "n", "t", "i", "t", "y" >>

Id_my_entity == << "m", "y", "_", "e", "n", "t", "i", "t", "y" >>

\* type identifiers
Id_String == << "S", "t", "r", "i", "n", "g" >>

Id_Uuid == << "U", "u", "i", "d" >>

Id_i32 == << "i", "3", "2" >>

Id_str == << "s", "t", "r" >>

Id_OsString == << "O", "s", "S", "t", "r", "i", "n", "g" >>

Id_std == << "s", "t", "d" >>

Id_string == << "s", "t", "r", "i", "n", "g" >>

Id_u8 == << "u", "8" >>

\* syn::Type: a path of segments; Path::get_ident is Some for one segment.
TypePath(segments) == [variant |-> "Path", segments |-> segments]

\* a syn::Type of another variant, here Type::Array over an element type
TypeArray(elem) == [variant |-> "Array", segments |-> << elem >>]

FieldTypes ==
    << TypePath(<< Id_Uuid >>), TypePath(<< Id_String >>), TypePath(<< Id_i32 >>),
       TypePath(<< Id_String >>), TypePath(<< Id_String >>) >>

\* #[key(name = "...", unique)] as written on a field; malformed: arguments
\* darling cannot read (a name that is no string, a unique that is no bool).
KeyAttr(name, unique) == [malformed |-> FALSE, name |-> name, unique |-> unique]

MalformedKeyAttr == [malformed |-> TRUE, name |-> None, unique |-> None]

\* #[column(name = "...")] as written on a field.
ColumnAttr(name) == [malformed |-> FALSE, name |-> name]

MalformedColumnAttr == [malformed |-> TRUE, name |-> None]

\* #[entity(name = ident, table_name = "...")] on the record; a record
\* without the attribute has both arguments absent.
EntityAttr(name, table_name) ==
    [malformed |-> FALSE, name |-> name, table_name |-> table_name]

MalformedEntityAttr == [malformed |-> TRUE, name |-> None, table_name |-> None]

Field(ident, ty, key, column) ==
    [ident |-> ident, ty |-> ty, key |-> key, column |-> column]

\* data: Struct, Enum or Union; style: Named, Unnamed or Unit (syn::Fields).
DeriveInput(data, style, ident, entity, fields) ==
    [data |-> data, style |-> style, ident |-> ident, entity |-> entity,
     fields |-> fields]

-----------------------------------------------------------------------------
(* The declarations Init draws from *)

KeyNameOpts == {None, Some("name_version")}

UniqueOpts == {None, Some(TRUE), Some(FALSE)}

\* every way to tag one field as a key, and no tag at all
KeyTagOpts == {None} \cup {Some(KeyAttr(n, u)) : n \in KeyNameOpts, u \in UniqueOpts}

\* the tags of the other families; the explicit name is also the identifier
\* of the second field, whose bare #[key] then joins the same group
KeyTagFew == {None, Some(KeyAttr(None, None)), Some(KeyAttr(Some("name"), Some(TRUE)))}

ColumnOpts == {Some(ColumnAttr(Some("id"))), Some(ColumnAttr(None)), Some(MalformedColumnAttr)}

EntityAttrOpts ==
    {EntityAttr(n, t) : n \in {None, Some(Id_my_entity), Some(Id_MyEntity)},
                        t \in {None, Some("my_entity")}}

FieldCounts == 0..MaxFields

NoColumns(n) == [i \in 1..n |-> None]

NamedStruct(ident, entity, keys, columns) ==
    DeriveInput("Struct", "Named", ident, entity,
                [i \in 1..Len(keys) |->
                    Field(Some(FieldNames[i]), FieldTypes[i], keys[i], columns[i])])

\* named structs without record attribute: every tagging of the fields
TaggedStructs ==
    UNION {{NamedStruct(Id_Widget, EntityAttr(None, None), ks, NoColumns(n)) :
                ks \in [1..n -> KeyTagOpts]} : n \in FieldCounts}

\* named structs under every record attribute and both record identifiers
AttributedStructs ==
    UNION {{NamedStruct(id, ea, ks, NoColumns(n)) :
                id \in {Id_Widget, Id_MyEntity}, ea \in EntityAttrOpts,
                ks \in [1..n -> KeyTagFew]} : n \in FieldCounts}

\* named structs with a column attribute on one field
ColumnStructs ==
    UNION {{NamedStruct(Id_MyEntity, EntityAttr(None, Some("my_entity")), ks,
                        [i \in 1..n |-> IF i = p THEN c ELSE None]) :
                ks \in [1..n -> KeyTagFew], p \in 1..n, c \in ColumnOpts} :
           n \in FieldCounts}

\* declarations the extractor rejects: an unreadable attribute, fields
\* without identifier, and declarations that are no struct
RejectedDecls ==
    UNION {{NamedStruct(Id_Widget, MalformedEntityAttr, ks, NoColumns(n)) :
                ks \in [1..n -> KeyTagFew]} : n \in FieldCounts}
    \cup UNION {{NamedStruct(Id_Widget, EntityAttr(None, None),
                             [i \in 1..n |-> IF i = p THEN Some(MalformedKeyAttr) ELSE ks[i]],
                             NoColumns(n)) :
                ks \in [1..n -> KeyTagFew], p \in 1..n} : n \in FieldCounts}
    \cup UNION {{DeriveInput("Struct", "Unnamed", Id_Widget, EntityAttr(None, None),
                             [i \in 1..n |-> Field(None, FieldTypes[i], ks[i], None)]) :
                ks \in [1..n -> KeyTagFew]} : n \in FieldCounts \ {0}}
    \cup {DeriveInput(d[1], d[2], Id_Widget, ea, << >>) :
            d \in {<< "Struct", "Unit" >>, << "Enum", "Unit" >>, << "Union", "Named" >>},
            ea \in {EntityAttr(None, None), MalformedEntityAttr}}

\* the types a key field is declared with: String by its name and by its
\* full path, another type whose name ends in String, and types that are
\* no string at all
TypeOpts ==
    {TypePath(<< Id_String >>), TypePath(<< Id_std, Id_string, Id_String >>),
     TypePath(<< Id_OsString >>), TypePath(<< Id_Uuid >>), TypeArray(Id_u8)}

\* two named fields, the first a key of each of these types
TypedStructs ==
    {[NamedStruct(Id_Widget, EntityAttr(None, None), << Some(KeyAttr(None, None)), k >>,
                  NoColumns(2)) EXCEPT !.fields[1].ty = t] :
        t \in TypeOpts, k \in KeyTagFew}

\* two named fields that carry the same identifier (the macro is expanded
\* before the compiler rejects the duplicate), the types differ
DuplicateFieldStructs ==
    {DeriveInput("Struct", "Named", Id_Widget, EntityAttr(None, None),
                 << Field(Some(Id_name), TypePath(<< Id_String >>), k1, c1),
                    Field(Some(Id_name), TypePath(<< Id_i32 >>), k2, None) >>) :
        k1 \in KeyTagFew, k2 \in KeyTagFew,
        c1 \in {None, Some(ColumnAttr(Some("id")))}}

\* tests::MyEntity of derive-tests, as declared there
MyEntityDecl ==
    NamedStruct(Id_MyEntity, EntityAttr(Some(Id_my_entity), Some("my_entity")),
                << Some(KeyAttr(Some("id"), Some(TRUE))),
                   Some(KeyAttr(Some("name_version"), Some(TRUE))),
                   Some(KeyAttr(Some("name_version"), Some(TRUE))),
                   Some(KeyAttr(Some("color"), None)),
                   None >>,
                << Some(ColumnAttr(Some("id"))), None, None, None, None >>)

Declarations ==
    TaggedStructs \cup AttributedStructs \cup ColumnStructs \cup TypedStructs
        \cup RejectedDecls \cup {MyEntityDecl}

-----------------------------------------------------------------------------
(* Extraction: TryFrom<DeriveInput> for DeriveEntity *)

FieldColumn(field_name, field_type, column_name) ==
    [field_name |-> field_name, field_type |-> field_type, column_name |-> column_name]

Key(name, unique, components) ==
    [name |-> name, unique |-> unique, components |-> components]

\* _columns holds the values of the field map in the order into_values
\* yields them; no code reads that order, and the collection is kept.
DeriveEntity(entity, snake_name, table_name, columns, keys) ==
    [entity |-> entity, snake_name |-> snake_name, table_name |-> table_name,
     columns |-> columns, keys |-> keys]

\* Variant of DeriveInputArgs_from_derive_input: supports(struct_named) is
\* left out, so every struct shape is read.
DeriveInputArgs_any_shape(derive_input) ==
    IF derive_input.entity.malformed
    THEN Err("DarlingError")
    ELSE Ok([name |-> derive_input.entity.name,
             table_name |-> derive_input.entity.table_name])

\* #[darling(attributes(entity), supports(struct_named))]
DeriveInputArgs_from_derive_input(derive_input) ==
    IF derive_input.style # "Named" \/ derive_input.data # "Struct"
    THEN Err("DarlingError")
    ELSE IF derive_input.entity.malformed
    THEN Err("DarlingError")
    ELSE Ok([name |-> derive_input.entity.name,
             table_name |-> derive_input.entity.table_name])

\* Variant of Key_from_field: unreadable arguments are dropped, not reported.
Key_from_field_lenient(f) ==
    IF IsSome(f.key) /\ ~Unwrap(f.key).malformed
    THEN Ok([name |-> Unwrap(f.key).name, unique |-> Unwrap(f.key).unique])
    ELSE Ok([name |-> None, unique |-> None])

\* args::Key: both arguments optional, so a bare #[key] is read.
Key_from_field(f) ==
    IF IsSome(f.key) /\ Unwrap(f.key).malformed
    THEN Err("DarlingError")
    ELSE IF IsSome(f.key)
    THEN Ok([name |-> Unwrap(f.key).name, unique |-> Unwrap(f.key).unique])
    ELSE Ok([name |-> None, unique |-> None])

\* Variant of Column_from_field: name carries #[darling(default)], so an
\* annotation without a readable name gives the empty name.
Column_from_field_default(f) ==
    IF IsSome(f.column) /\ ~Unwrap(f.column).malformed /\ IsSome(Unwrap(f.column).name)
    THEN Ok([name |-> Unwrap(Unwrap(f.column).name)])
    ELSE IF IsSome(f.column) THEN Ok([name |-> ""])
    ELSE Err("DarlingError")

\* args::Column: name is required, so a field without the attribute, or
\* without the argument, is an error.
Column_from_field(f) ==
    IF IsSome(f.column) /\ ~Unwrap(f.column).malformed /\ IsSome(Unwrap(f.column).name)
    THEN Ok([name |-> Unwrap(Unwrap(f.column).name)])
    ELSE Err("DarlingError")

EmptyMap == [k \in {} |-> k]

MapInsert(m, k, v) == [x \in DOMAIN m \cup {k} |-> IF x = k THEN v ELSE m[x]]

\* Variant of column_name_of: the column attribute is never consulted.
column_name_ident(field, field_name) == Str(field_name)

\* the column name of one field: the column attribute's name when it is
\* read, else the field identifier
column_name_of(field, field_name) ==
    LET column == Column_from_field(field)
    IN  IF column.ok THEN column.val.name ELSE Str(field_name)

\* field_columns: the try_fold over the first n fields
RECURSIVE field_columns_fold(_, _)
field_columns_fold(fields, n) ==
    IF n = 0 THEN Ok(EmptyMap)
    ELSE LET acc == field_columns_fold(fields, n - 1)
             field == fields[n]
         IN  IF ~acc.ok THEN acc
             ELSE IF ~IsSome(field.ident) THEN Err("FieldRequired")
             ELSE LET field_name == Unwrap(field.ident)
                  IN  Ok(MapInsert(acc.val, field_name,
                                   FieldColumn(field_name, field.ty,
                                               column_name_of(field, field_name))))

field_columns(fields) == field_columns_fold(fields, Len(fields))

\* Variant of is_key: the test for the attribute's path is lost and every
\* field counts as tagged.
is_key_every_field(f) == TRUE

\* a.path().get_ident() == "key" for some attribute of the field
is_key(f) == IsSome(f.key)

\* Variant of pk_of: the component is built from the field, not looked up
\* in the field map.
pk_of_fresh_column(f, fcs) ==
    IF ~is_key(f) THEN Ok(None)
    ELSE IF ~IsSome(f.ident) THEN Err("MissingKeyName")
    ELSE LET f_ident == Unwrap(f.ident)
             key == Key_from_field(f)
         IN  IF ~key.ok THEN Err("DarlingError")
             ELSE LET key_name == unwrap_or(key.val.name, Str(f_ident))
                      key_unique == unwrap_or(key.val.unique, FALSE)
                  IN  Ok(Some(<< key_name,
                                 << FieldColumn(f_ident, f.ty, Str(f_ident)), key_unique >> >>))

\* the closure of the map over the fields: the tag of one field
pk_of(f, fcs) ==
    IF ~is_key(f) THEN Ok(None)
    ELSE IF ~IsSome(f.ident) THEN Err("MissingKeyName")
    ELSE LET f_ident == Unwrap(f.ident)
             key == Key_from_field(f)
         IN  IF ~key.ok THEN Err("DarlingError")
             ELSE LET key_name == unwrap_or(key.val.name, Str(f_ident))
                      key_unique == unwrap_or(key.val.unique, FALSE)
                  IN  Ok(Some(<< key_name, << fcs[f_ident], key_unique >> >>))

\* collect::<Result<Vec<_>, _>>: the first error, else every item
CollectResults(results) ==
    IF \E i \in 1..Len(results) : ~results[i].ok
    THEN results[CHOOSE i \in 1..Len(results) :
                    /\ ~results[i].ok
                    /\ \A j \in 1..(i - 1) : results[j].ok]
    ELSE Ok([i \in 1..Len(results) |-> results[i].val])

\* .iter().flatten().cloned().collect_vec(): the Some items, in order
RECURSIVE Flatten(_)
Flatten(options) ==
    IF options = << >> THEN << >>
    ELSE Flatten(SubSeq(options, 1, Len(options) - 1)) \o options[Len(options)]

pks_of(fields, fcs) ==
    LET tags == CollectResults([i \in 1..Len(fields) |-> pk_of(fields[i], fcs)])
    IN  IF tags.ok THEN Ok(Flatten(tags.val)) ELSE tags

\* Variant of into_group_map_by_fst: only the first item of a key is kept.
RECURSIVE into_group_map_first_only(_, _)
into_group_map_first_only(items, n) ==
    IF n = 0 THEN EmptyMap
    ELSE LET lookup == into_group_map_first_only(items, n - 1)
             k == items[n][1]
         IN  IF k \in DOMAIN lookup
             THEN lookup
             ELSE MapInsert(lookup, k, << items[n] >>)

\* Itertools::into_group_map_by(|(k, _)| k.clone()): each item is pushed
\* onto the Vec of its key, in iteration order
RECURSIVE into_group_map_by_fst(_, _)
into_group_map_by_fst(items, n) ==
    IF n = 0 THEN EmptyMap
    ELSE LET lookup == into_group_map_by_fst(items, n - 1)
             k == items[n][1]
         IN  IF k \in DOMAIN lookup
             THEN [lookup EXCEPT ![k] = Append(@, items[n])]
             ELSE MapInsert(lookup, k, << items[n] >>)

\* Variant of index: the pairs are collected into the map directly, so a
\* later value of a key replaces the earlier ones.
index_overwriting(items) ==
    LET groups == into_group_map_by_fst(items, Len(items))
    IN  [k \in DOMAIN groups |-> << groups[k][Len(groups[k])][2] >>]

\* utilities::iterable::index: a HashMap from each key to its values
index(items) ==
    LET groups == into_group_map_by_fst(items, Len(items))
    IN  [k \in DOMAIN groups |-> [i \in 1..Len(groups[k]) |-> groups[k][i][2]]]

\* HashMap::into_iter: every entry once, in an order the contents of the
\* map do not determine (the hasher is seeded per map)
HashMapIterOrders(m) ==
    LET n == Cardinality(DOMAIN m)
    IN  {[i \in 1..n |-> << order[i], m[order[i]] >>] :
            order \in {o \in [1..n -> DOMAIN m] :
                          \A i, j \in 1..n : i # j => o[i] # o[j]}}

\* Variant of key_unique_of: all() in place of any().
key_unique_all(v) == \A i \in 1..Len(v) : v[i][2]

\* the unique flag of a key: any component marked unique
key_unique_of(v) == \E i \in 1..Len(v) : v[i][2]

\* the closure mapping one (k, v) entry of the index to a Key
key_of(k, v) == Key(k, key_unique_of(v), [i \in 1..Len(v) |-> v[i][1]])

\* Variant of table_name_of: the default is the snake-cased identifier.
table_name_snake(args, derive_input) ==
    unwrap_or(args.table_name, Str(to_case_snake(derive_input.ident)))

\* args.table_name.unwrap_or_else(|| derive_input.ident.to_string())
table_name_of(args, derive_input) ==
    unwrap_or(args.table_name, Str(derive_input.ident))

\* DeriveEntity::try_from: every result the declaration can give, one per
\* order in which the index is iterated
DeriveEntity_try_from(derive_input) ==
    IF derive_input.data # "Struct" THEN {Err("StructRequired")}
    ELSE LET args == DeriveInputArgs_from_derive_input(derive_input)
             fcs == field_columns(derive_input.fields)
         IN  IF ~args.ok THEN {args}
             ELSE IF ~fcs.ok THEN {fcs}
             ELSE LET pks == pks_of(derive_input.fields, fcs.val)
                  IN  IF ~pks.ok THEN {pks}
                      ELSE {Ok(DeriveEntity(
                                derive_input.ident,
                                args.val.name,
                                table_name_of(args.val, derive_input),
                                {fcs.val[id] : id \in DOMAIN fcs.val},
                                [i \in 1..Len(entries) |-> key_of(entries[i][1], entries[i][2])])) :
                            entries \in HashMapIterOrders(index(pks.val))}

-----------------------------------------------------------------------------
(* Synthesis: TryFrom<DeriveEntity> for TokenStream *)

\* Variant of entity_snake_name: the record identifier, whatever name = says.
entity_snake_name_of_ident(entity) == to_case_snake(entity.entity)

entity_snake_name(entity) ==
    to_case_snake(unwrap_or(entity.snake_name, entity.entity))

\* Variant of fn_name_of: every function is named find_.
fn_name_find_only(entity, key) ==
    "find_" \o Str(entity_snake_name(entity)) \o "_by_" \o key.name

\* format_ident!("find_{}_by_{}", ..) / format_ident!("list_{}_by_{}", ..)
fn_name_of(entity, key) ==
    IF key.unique
    THEN "find_" \o Str(entity_snake_name(entity)) \o "_by_" \o key.name
    ELSE "list_" \o Str(entity_snake_name(entity)) \o "_by_" \o key.name

\* Result<Option<#ent>, sqlx::Error> / Result<Vec<#ent>, sqlx::Error>
fn_rtn_of(entity, key) ==
    IF key.unique
    THEN [result_of |-> "Option", ent |-> entity.entity, error |-> "sqlx::Error"]
    ELSE [result_of |-> "Vec", ent |-> entity.entity, error |-> "sqlx::Error"]

map_type(ty) ==
    IF /\ ty.variant = "Path"
       /\ Len(ty.segments) = 1
       /\ EndsWith(ty.segments[1], Id_String)
    THEN TypePath(<< Id_str >>)
    ELSE ty

\* #name: &#ty, one per component
fn_args_of(key) ==
    [i \in 1..Len(key.components) |->
        [name |-> key.components[i].field_name,
         ty |-> [reference_to |-> map_type(key.components[i].field_type)]]]

KeyFn_new(entity, key) ==
    [fn_name |-> fn_name_of(entity, key),
     fn_rtn |-> fn_rtn_of(entity, key),
     fn_args |-> fn_args_of(key)]

\* format_ident!("{}Repo", entity.entity)
EntityImpl_new(entity) == [trait_name |-> Str(entity.entity) \o "Repo"]

\* async fn #fn_name(&self, #(#fn_args), *) -> #fn_rtn;
trait_fn_of(entity, key) ==
    LET key_fn == KeyFn_new(entity, key)
    IN  [fn_name |-> key_fn.fn_name, fn_args |-> key_fn.fn_args, fn_rtn |-> key_fn.fn_rtn]

repo_trait(entity) ==
    Ok([trait_name |-> EntityImpl_new(entity).trait_name,
        fns |-> [i \in 1..Len(entity.keys) |-> trait_fn_of(entity, entity.keys[i])]])

\* Variant of where_condition: the placeholder is numbered i, from 0.
where_condition_from_zero(i, c) == c.column_name \o " = $" \o UsizeToString(i)

\* the condition of the i-th component (i counted from 0 by enumerate)
where_condition(i, c) == c.column_name \o " = $" \o UsizeToString(i + 1)

where_clause_of(key) ==
    Join([n \in 1..Len(key.components) |-> where_condition(n - 1, key.components[n])],
         " and ")

query_of(entity, key) ==
    "select * from " \o entity.table_name \o " where " \o where_clause_of(key)

\* Variant of binds_of: the bind calls are emitted last component first.
binds_reversed(key) ==
    [i \in 1..Len(key.components) |->
        key.components[Len(key.components) + 1 - i].field_name]

\* .bind(&#f), one per component
binds_of(key) == [i \in 1..Len(key.components) |-> key.components[i].field_name]

\* Variant of pg_body_of: both branches end in fetch_all.
pg_body_fetch_all(entity, key) ==
    [lock |-> FALSE,
     query |-> query_of(entity, key),
     binds |-> binds_of(key),
     fetch |-> "fetch_all",
     executor |-> "self"]

\* sqlx::query_as(#query) #(#binds)* .fetch_optional(self) / .fetch_all(self)
pg_body_of(entity, key) ==
    [lock |-> FALSE,
     query |-> query_of(entity, key),
     binds |-> binds_of(key),
     fetch |-> IF key.unique THEN "fetch_optional" ELSE "fetch_all",
     executor |-> "self"]

pg_fn_of(entity, key) ==
    LET key_fn == KeyFn_new(entity, key)
    IN  [fn_name |-> key_fn.fn_name, fn_args |-> key_fn.fn_args, fn_rtn |-> key_fn.fn_rtn,
         body |-> pg_body_of(entity, key)]

pg_impl(entity, impl_ty) ==
    Ok([trait_name |-> EntityImpl_new(entity).trait_name,
        impl_ty |-> impl_ty,
        fns |-> [i \in 1..Len(entity.keys) |-> pg_fn_of(entity, entity.keys[i])]])

\* tx_impl builds its own query: format!("{} = ${}", c.column_name, i + 1)
tx_where_condition(i, c) == c.column_name \o " = $" \o UsizeToString(i + 1)

tx_where_clause_of(key) ==
    Join([n \in 1..Len(key.components) |-> tx_where_condition(n - 1, key.components[n])],
         " and ")

\* Variant of tx_query_of: the rows are locked for the transaction.
tx_query_for_update(entity, key) ==
    "select * from " \o entity.table_name \o " where " \o tx_where_clause_of(key)
        \o " for update"

tx_query_of(entity, key) ==
    "select * from " \o entity.table_name \o " where " \o tx_where_clause_of(key)

\* .bind(&#f), one per component
tx_binds_of(key) == [i \in 1..Len(key.components) |-> key.components[i].field_name]

\* Variant of tx_body_of: the query runs against the handle without
\* self.lock().await.
tx_body_unlocked(entity, key) ==
    [lock |-> FALSE,
     query |-> tx_query_of(entity, key),
     binds |-> tx_binds_of(key),
     fetch |-> IF key.unique THEN "fetch_optional" ELSE "fetch_all",
     executor |-> "&mut **tx"]

\* let mut tx = self.lock().await; then the query against &mut **tx
tx_body_of(entity, key) ==
    [lock |-> TRUE,
     query |-> tx_query_of(entity, key),
     binds |-> tx_binds_of(key),
     fetch |-> IF key.unique THEN "fetch_optional" ELSE "fetch_all",
     executor |-> "&mut **tx"]

tx_fn_of(entity, key) ==
    LET key_fn == KeyFn_new(entity, key)
    IN  [fn_name |-> key_fn.fn_name, fn_args |-> key_fn.fn_args, fn_rtn |-> key_fn.fn_rtn,
         body |-> tx_body_of(entity, key)]

tx_impl(entity) ==
    Ok([trait_name |-> EntityImpl_new(entity).trait_name,
        impl_ty |-> "tokio::sync::Mutex<sqlx::Transaction<'_, sqlx::Postgres>>",
        fns |-> [i \in 1..Len(entity.keys) |-> tx_fn_of(entity, entity.keys[i])]])

\* TokenStream::try_from: the three items, or the first error
TokenStream_try_from(entity) ==
    LET trait == repo_trait(entity)
        pgpool_impl == pg_impl(entity, "sqlx::Pool<sqlx::Postgres>")
        tx == tx_impl(entity)
    IN  IF ~trait.ok THEN trait
        ELSE IF ~pgpool_impl.ok THEN pgpool_impl
        ELSE IF ~tx.ok THEN tx
        ELSE Ok([repo_trait |-> trait.val, pgpool_impl |-> pgpool_impl.val,
                 tx_impl |-> tx.val])

-----------------------------------------------------------------------------
(* The macro: derive_sql *)

VARIABLES
    derive_input,   \* the declaration parse_macro_input! produced
    pc,             \* where derive_sql stands
    derive_entity,  \* the Result of DeriveEntity::try_from, None before it
    tokens,         \* the Result of TokenStream::try_from, None before it
    output,         \* the TokenStream the macro returned, None before
    run,            \* the number of the current expansion
    first_output    \* the output of the first expansion, None before it ends

\* The generated transactional impl at run time: tasks that call its
\* functions on one shared tokio::sync::Mutex<sqlx::Transaction>.
VARIABLES
    call_pc,        \* per task: "idle", "waiting", "querying", "returned"
    call_fn,        \* per task: the index of the function it is in, 0 if none
    call_result,    \* per task: "none", "Ok" or "Err", what the call returned
    lock_holder,    \* the task that holds the MutexGuard, None if free
    waiters,        \* the tasks queued in self.lock().await, oldest first
    tx_state,       \* "open", "committed" or "rolled_back"
    call_impl,      \* per task: "pool" or "tx", the impl it called, else "none"
    storage,        \* per task: what the database answered to its query
    call_value      \* per task: the value the function returned

runtime == << call_pc, call_fn, call_result, lock_holder, waiters, tx_state,
              call_impl, storage, call_value >>

\* mq::Consumer::consume on one channel
VARIABLES
    stream,         \* what the lapin consumer yields: Ok deliveries and errors
    cursor,         \* how many items of the stream consume has taken
    cons_pc,        \* where consume stands
    process_result, \* the Result for the delivery in hand, None before
    called,         \* whether the processor was called for that delivery
    decisions,      \* the ack/nack calls made so far, one record each
    cons_result     \* what consume returned, None while it runs

consumer == << stream, cursor, cons_pc, process_result, called, decisions, cons_result >>

\* mq::setup: a Topology under construction and its application
VARIABLES
    topology,       \* the Topology in the builder's RefCell
    builder_calls,  \* the with_* calls made on the builder, in order
    top_pc,         \* "building", then the loop apply_topology is in, "done"
    top_i,          \* the position of that loop in its list, from 1
    applied,        \* the declare/bind calls made on the channel, in order
    top_result      \* what apply_topology returned, None while it runs

setup == << topology, builder_calls, top_pc, top_i, applied, top_result >>

vars == << derive_input, pc, derive_entity, tokens, output, run, first_output,
           call_pc, call_fn, call_result, lock_holder, waiters, tx_state,
           call_impl, storage, call_value,
           stream, cursor, cons_pc, process_result, called, decisions, cons_result,
           topology, builder_calls, top_pc, top_i, applied, top_result >>

\* no consumer runs: nothing to deliver, consume not yet called
ConsumerIdle ==
    /\ stream = << >>
    /\ cursor = 0
    /\ cons_pc = "start"
    /\ process_result = None
    /\ called = FALSE
    /\ decisions = << >>
    /\ cons_result = None

\* Topology::builder(): RefCell::new(Topology::new())
SetupIdle ==
    /\ topology = [queues |-> << >>, exchanges |-> << >>, bindings |-> << >>]
    /\ builder_calls = << >>
    /\ top_pc = "building"
    /\ top_i = 1
    /\ applied = << >>
    /\ top_result = None

\* the tasks that share the transaction
MaxCallers == 2

Callers == 1..MaxCallers

\* the rows a query can match
MaxRows == 1

\* sqlx::Error values the driver can answer with
StorageErrors == {"PoolTimedOut", "Database"}

NoAnswer == [kind |-> "none"]

\* the database matched the rows 1..n / failed with e
Rows(n) == [kind |-> "rows", rows |-> [k \in 1..n |-> k]]

Failure(e) == [kind |-> "error", error |-> e]

\* the value of `sqlx::query_as(..).fetch_optional(..).await` and of
\* `.fetch_all(..).await` on rows: the first row if any, resp. all rows
FetchValue(fetch, rows) ==
    IF fetch = "fetch_optional"
    THEN Ok(IF rows = << >> THEN None ELSE Some(rows[1]))
    ELSE Ok(rows)

\* no task has called yet, the caller's transaction is open
RuntimeInit ==
    /\ call_pc = [c \in Callers |-> "idle"]
    /\ call_fn = [c \in Callers |-> 0]
    /\ call_result = [c \in Callers |-> "none"]
    /\ lock_holder = None
    /\ waiters = << >>
    /\ tx_state = "open"
    /\ call_impl = [c \in Callers |-> "none"]
    /\ storage = [c \in Callers |-> NoAnswer]
    /\ call_value = [c \in Callers |-> NoAnswer]
    /\ ConsumerIdle
    /\ SetupIdle

Init ==
    /\ derive_input \in Declarations
    /\ pc = "parsed"
    /\ derive_entity = None
    /\ tokens = None
    /\ output = None
    /\ run = 1
    /\ first_output = None
    /\ RuntimeInit

\* let derive_entity = DeriveEntity::try_from(derive_input)
Extract ==
    /\ pc = "parsed"
    /\ \E result \in DeriveEntity_try_from(derive_input) :
          derive_entity' = Some(result)
    /\ pc' = "extracted"
    /\ UNCHANGED << derive_input, tokens, output, run, first_output >>
    /\ UNCHANGED runtime
    /\ UNCHANGED << consumer, setup >>

\* Variant of ExtractPanic: unwrap_or_default-style recovery, the macro
\* returns an empty trait and empty impls.
ExtractRecover ==
    /\ pc = "extracted"
    /\ ~Unwrap(derive_entity).ok
    /\ output' = Some([repo_trait |-> [trait_name |-> "", fns |-> << >>],
                       pgpool_impl |-> [trait_name |-> "", impl_ty |-> "", fns |-> << >>],
                       tx_impl |-> [trait_name |-> "", impl_ty |-> "", fns |-> << >>]])
    /\ pc' = "emitted"
    /\ UNCHANGED << derive_input, derive_entity, tokens, run, first_output >>
    /\ UNCHANGED runtime
    /\ UNCHANGED << consumer, setup >>

\* .expect("failed to understand macro arguments") on an Err
ExtractPanic ==
    /\ pc = "extracted"
    /\ ~Unwrap(derive_entity).ok
    /\ pc' = "panicked"
    /\ UNCHANGED << derive_input, derive_entity, tokens, output, run, first_output >>
    /\ UNCHANGED runtime
    /\ UNCHANGED << consumer, setup >>

\* let entity: TokenStream = derive_entity.try_into()
Synthesize ==
    /\ pc = "extracted"
    /\ Unwrap(derive_entity).ok
    /\ tokens' = Some(TokenStream_try_from(Unwrap(derive_entity).val))
    /\ pc' = "synthesized"
    /\ UNCHANGED << derive_input, derive_entity, output, run, first_output >>
    /\ UNCHANGED runtime
    /\ UNCHANGED << consumer, setup >>

\* .expect("could create token stream"), then entity.into()
Emit ==
    /\ pc = "synthesized"
    /\ IF Unwrap(tokens).ok
       THEN /\ output' = Some(Unwrap(tokens).val)
            /\ pc' = "emitted"
       ELSE /\ output' = output
            /\ pc' = "panicked"
    /\ UNCHANGED << derive_input, derive_entity, tokens, run, first_output >>
    /\ UNCHANGED runtime
    /\ UNCHANGED << consumer, setup >>

Next == Extract \/ ExtractPanic \/ Synthesize \/ Emit

Spec == Init /\ [][Next]_vars

\* the compiler expands the macro on the same declaration once more (a
\* second build): the first output is kept for comparison
Rerun ==
    /\ pc = "emitted"
    /\ run < MaxRuns
    /\ run' = run + 1
    /\ first_output' = IF run = 1 THEN output ELSE first_output
    /\ pc' = "parsed"
    /\ derive_entity' = None
    /\ tokens' = None
    /\ output' = None
    /\ UNCHANGED derive_input
    /\ UNCHANGED runtime
    /\ UNCHANGED << consumer, setup >>

\* the same expansion over the declarations and the declarations with a
\* repeated field identifier
InitWide ==
    /\ derive_input \in Declarations \cup DuplicateFieldStructs
    /\ pc = "parsed"
    /\ derive_entity = None
    /\ tokens = None
    /\ output = None
    /\ run = 1
    /\ first_output = None
    /\ RuntimeInit

SpecWide == InitWide /\ [][Next]_vars

NextTwice == Next \/ Rerun

SpecTwice == Init /\ [][NextTwice]_vars

-----------------------------------------------------------------------------
(* The generated transactional functions, called by concurrent tasks *)

\* the declarations the run-time model expands: two fields under the few
\* taggings, and one enum that the macro rejects
TxDeclarations ==
    {NamedStruct(Id_Widget, EntityAttr(None, None), ks, NoColumns(2)) :
        ks \in [1..2 -> KeyTagFew]}
    \cup {[ident |-> Id_Widget, data |-> "Enum", style |-> "Unit",
           entity |-> EntityAttr(None, None), fields |-> << >>]}

InitTx ==
    /\ derive_input \in TxDeclarations
    /\ pc = "parsed"
    /\ derive_entity = None
    /\ tokens = None
    /\ output = None
    /\ run = 1
    /\ first_output = None
    /\ RuntimeInit

macro == << derive_input, pc, derive_entity, tokens, output, run, first_output >>

\* the functions of the emitted impl for Mutex<Transaction>
TxFns == Unwrap(output).tx_impl.fns

\* a task calls function i: with `let mut tx = self.lock().await` in the
\* body it queues for the mutex, otherwise it goes on to the query
Call(c, i) ==
    /\ pc = "emitted"
    /\ call_pc[c] = "idle"
    /\ i \in 1..Len(TxFns)
    /\ call_fn' = [call_fn EXCEPT ![c] = i]
    /\ call_result' = [call_result EXCEPT ![c] = "none"]
    /\ IF TxFns[i].body.lock
       THEN /\ call_pc' = [call_pc EXCEPT ![c] = "waiting"]
            /\ waiters' = Append(waiters, c)
       ELSE /\ call_pc' = [call_pc EXCEPT ![c] = "querying"]
            /\ waiters' = waiters
    /\ call_impl' = [call_impl EXCEPT ![c] = "tx"]
    /\ UNCHANGED << lock_holder, tx_state, storage, call_value >>
    /\ UNCHANGED macro
    /\ UNCHANGED << consumer, setup >>

\* the functions of the emitted impl for the pool
PgFns == Unwrap(output).pgpool_impl.fns

\* a task calls function i on the pool: the body has no lock() and goes
\* on to the query
CallPool(c, i) ==
    /\ pc = "emitted"
    /\ call_pc[c] = "idle"
    /\ i \in 1..Len(PgFns)
    /\ call_fn' = [call_fn EXCEPT ![c] = i]
    /\ call_result' = [call_result EXCEPT ![c] = "none"]
    /\ call_impl' = [call_impl EXCEPT ![c] = "pool"]
    /\ IF PgFns[i].body.lock
       THEN /\ call_pc' = [call_pc EXCEPT ![c] = "waiting"]
            /\ waiters' = Append(waiters, c)
       ELSE /\ call_pc' = [call_pc EXCEPT ![c] = "querying"]
            /\ waiters' = waiters
    /\ UNCHANGED << lock_holder, tx_state, storage, call_value >>
    /\ UNCHANGED macro
    /\ UNCHANGED << consumer, setup >>

\* the body of the function task c is in
CalledBody(c) ==
    IF call_impl[c] = "pool" THEN PgFns[call_fn[c]].body ELSE TxFns[call_fn[c]].body

\* self.lock().await resolves: the mutex is free and the task is the oldest
\* waiter (tokio's Mutex hands the lock out in request order)
Acquire(c) ==
    /\ call_pc[c] = "waiting"
    /\ lock_holder = None
    /\ waiters # << >>
    /\ Head(waiters) = c
    /\ lock_holder' = Some(c)
    /\ waiters' = Tail(waiters)
    /\ call_pc' = [call_pc EXCEPT ![c] = "querying"]
    /\ UNCHANGED << call_fn, call_result, tx_state, call_impl, storage, call_value >>
    /\ UNCHANGED macro
    /\ UNCHANGED << consumer, setup >>

\* the guard `tx` goes out of scope at the end of the body
DropGuard(c) == IF lock_holder = Some(c) THEN None ELSE lock_holder

\* Variant of QueryErr: the guard outlives a failed query.
QueryErrKeepsGuard(c) ==
    /\ call_pc[c] = "querying"
    /\ tx_state = "open"
    /\ call_result' = [call_result EXCEPT ![c] = "Err"]
    /\ call_pc' = [call_pc EXCEPT ![c] = "returned"]
    /\ \E e \in StorageErrors :
          /\ storage' = [storage EXCEPT ![c] = Failure(e)]
          /\ call_value' = [call_value EXCEPT ![c] = Err(e)]
    /\ UNCHANGED << call_fn, lock_holder, waiters, tx_state, call_impl >>
    /\ UNCHANGED macro
    /\ UNCHANGED << consumer, setup >>

\* Variant of QueryErr: the function maps the sqlx::Error into an error of
\* its own.
QueryErrWrapped(c) ==
    /\ call_pc[c] = "querying"
    /\ tx_state = "open"
    /\ call_result' = [call_result EXCEPT ![c] = "Err"]
    /\ call_pc' = [call_pc EXCEPT ![c] = "returned"]
    /\ lock_holder' = DropGuard(c)
    /\ \E e \in StorageErrors :
          /\ storage' = [storage EXCEPT ![c] = Failure(e)]
          /\ call_value' = [call_value EXCEPT ![c] = Err("Wrapped")]
    /\ UNCHANGED << call_fn, waiters, tx_state, call_impl >>
    /\ UNCHANGED macro
    /\ UNCHANGED << consumer, setup >>

\* sqlx::query_as(..).fetch_*(&mut **tx).await yields Ok(rows): the value
\* of the body, and the guard is dropped
QueryOk(c) ==
    /\ call_pc[c] = "querying"
    /\ tx_state = "open"
    /\ call_result' = [call_result EXCEPT ![c] = "Ok"]
    /\ call_pc' = [call_pc EXCEPT ![c] = "returned"]
    /\ lock_holder' = DropGuard(c)
    /\ \E n \in 0..MaxRows :
          /\ storage' = [storage EXCEPT ![c] = Rows(n)]
          /\ call_value' = [call_value EXCEPT ![c] =
                                FetchValue(CalledBody(c).fetch, Rows(n).rows)]
    /\ UNCHANGED << call_fn, waiters, tx_state, call_impl >>
    /\ UNCHANGED macro
    /\ UNCHANGED << consumer, setup >>

\* the same await yields Err(sqlx::Error): returned as is, the guard is
\* dropped, nothing is rolled back
QueryErr(c) ==
    /\ call_pc[c] = "querying"
    /\ tx_state = "open"
    /\ call_result' = [call_result EXCEPT ![c] = "Err"]
    /\ call_pc' = [call_pc EXCEPT ![c] = "returned"]
    /\ lock_holder' = DropGuard(c)
    /\ \E e \in StorageErrors :
          /\ storage' = [storage EXCEPT ![c] = Failure(e)]
          /\ call_value' = [call_value EXCEPT ![c] = Err(e)]
    /\ UNCHANGED << call_fn, waiters, tx_state, call_impl >>
    /\ UNCHANGED macro
    /\ UNCHANGED << consumer, setup >>

\* the caller takes the result; the task may call again
Return(c) ==
    /\ call_pc[c] = "returned"
    /\ call_pc' = [call_pc EXCEPT ![c] = "idle"]
    /\ call_fn' = [call_fn EXCEPT ![c] = 0]
    /\ call_impl' = [call_impl EXCEPT ![c] = "none"]
    /\ storage' = [storage EXCEPT ![c] = NoAnswer]
    /\ call_value' = [call_value EXCEPT ![c] = NoAnswer]
    /\ UNCHANGED << call_result, lock_holder, waiters, tx_state >>
    /\ UNCHANGED macro
    /\ UNCHANGED << consumer, setup >>

NextTx ==
    \/ Next
    \/ \E c \in Callers : \E i \in 1..MaxFields : Call(c, i)
    \/ \E c \in Callers : Acquire(c)
    \/ \E c \in Callers : QueryOk(c)
    \/ \E c \in Callers : QueryErr(c)
    \/ \E c \in Callers : Return(c)

SpecTx == InitTx /\ [][NextTx]_vars

\* the tasks call the functions of both impls
NextCalls ==
    \/ NextTx
    \/ \E c \in Callers : \E i \in 1..MaxFields : CallPool(c, i)

SpecCalls == InitTx /\ [][NextCalls]_vars

\* tokio polls every spawned task again and the database answers every
\* query: a lock() that can resolve does, a query ends, a result is taken
SpecTxFair ==
    /\ SpecTx
    /\ \A c \in Callers :
          /\ WF_vars(Acquire(c))
          /\ WF_vars(QueryOk(c) \/ QueryErr(c))
          /\ WF_vars(Return(c))

-----------------------------------------------------------------------------
(* mq::Consumer::consume *)

\* the deliveries a stream holds at most
MaxDeliveries == 2

\* an item of the lapin consumer stream: a delivery whose data is an
\* Envelope in JSON, a delivery with other data, or a lapin error
DeliveryItems ==
    {Ok([data |-> "envelope"]), Ok([data |-> "garbage"]), Err("lapin::Error")}

Streams == UNION {[1..n -> DeliveryItems] : n \in 0..MaxDeliveries}

\* the `?` on a lapin Result: the error converted into MqError
MqError_from(e) == [mq_error_from |-> e]

\* serde_json::from_slice::<Envelope<Value>>(&delivery.data)
\*     .map_err(|e| ProcessorError::PermanentError(e.to_string()))
envelope_of(delivery) ==
    IF delivery.data = "envelope" THEN Ok("message") ELSE Err("PermanentError")

\* Variant of handle_message_result_call: every failure is requeued.
handle_message_result_requeue(result) ==
    IF result.ok THEN [op |-> "ack", requeue |-> None]
    ELSE [op |-> "nack", requeue |-> Some(TRUE)]

\* the call handle_message_result makes on the delivery for a result
handle_message_result_call(result) ==
    IF result.ok THEN [op |-> "ack", requeue |-> None]
    ELSE IF result.err = "TemporaryError" THEN [op |-> "nack", requeue |-> Some(TRUE)]
    ELSE [op |-> "nack", requeue |-> Some(FALSE)]

InitConsume ==
    /\ derive_input = MyEntityDecl
    /\ pc = "parsed"
    /\ derive_entity = None
    /\ tokens = None
    /\ output = None
    /\ run = 1
    /\ first_output = None
    /\ call_pc = [c \in Callers |-> "idle"]
    /\ call_fn = [c \in Callers |-> 0]
    /\ call_result = [c \in Callers |-> "none"]
    /\ lock_holder = None
    /\ waiters = << >>
    /\ tx_state = "open"
    /\ call_impl = [c \in Callers |-> "none"]
    /\ storage = [c \in Callers |-> NoAnswer]
    /\ call_value = [c \in Callers |-> NoAnswer]
    /\ stream \in Streams
    /\ cursor = 0
    /\ cons_pc = "start"
    /\ process_result = None
    /\ called = FALSE
    /\ decisions = << >>
    /\ cons_result = None
    /\ SetupIdle

\* self.channel.basic_consume(..).await?
BasicConsume ==
    /\ cons_pc = "start"
    /\ \/ /\ cons_pc' = "next"
          /\ cons_result' = cons_result
       \/ /\ cons_pc' = "done"
          /\ cons_result' = Some(Err(MqError_from("lapin::Error")))
    /\ UNCHANGED << stream, cursor, process_result, called, decisions >>
    /\ UNCHANGED << macro, runtime, setup >>

\* consumer.next().await is Some(delivery) and `delivery?` is a Delivery
TakeDelivery ==
    /\ cons_pc = "next"
    /\ cursor < Len(stream)
    /\ stream[cursor + 1].ok
    /\ cursor' = cursor + 1
    /\ process_result' = None
    /\ called' = FALSE
    /\ cons_pc' = "decode"
    /\ UNCHANGED << stream, decisions, cons_result >>
    /\ UNCHANGED << macro, runtime, setup >>

\* consumer.next().await is Some(Err(e)): `delivery?` returns the error
DeliveryFails ==
    /\ cons_pc = "next"
    /\ cursor < Len(stream)
    /\ ~stream[cursor + 1].ok
    /\ cursor' = cursor + 1
    /\ cons_pc' = "done"
    /\ cons_result' = Some(Err(MqError_from(stream[cursor + 1].err)))
    /\ UNCHANGED << stream, process_result, called, decisions >>
    /\ UNCHANGED << macro, runtime, setup >>

\* consumer.next().await is None: warn!, break, Ok(())
StreamEnds ==
    /\ cons_pc = "next"
    /\ cursor = Len(stream)
    /\ cons_pc' = "done"
    /\ cons_result' = Some(Ok("unit"))
    /\ UNCHANGED << stream, cursor, process_result, called, decisions >>
    /\ UNCHANGED << macro, runtime, setup >>

\* the payload is decoded; if that fails the match yields Err(e) at once
Decode ==
    /\ cons_pc = "decode"
    /\ IF envelope_of(stream[cursor].val).ok
       THEN /\ cons_pc' = "process"
            /\ process_result' = process_result
       ELSE /\ cons_pc' = "handle"
            /\ process_result' = Some(Err(envelope_of(stream[cursor].val).err))
    /\ UNCHANGED << stream, cursor, called, decisions, cons_result >>
    /\ UNCHANGED << macro, runtime, setup >>

\* processor.process(envelope.message).await, with any of its results
Process ==
    /\ cons_pc = "process"
    /\ \E r \in {Ok("unit"), Err("TemporaryError"), Err("PermanentError")} :
          process_result' = Some(r)
    /\ called' = TRUE
    /\ cons_pc' = "handle"
    /\ UNCHANGED << stream, cursor, decisions, cons_result >>
    /\ UNCHANGED << macro, runtime, setup >>

\* handle_message_result(&delivery, &process_result).await?: the ack or
\* nack is sent; if lapin reports an error, consume returns it
HandleMessageResult ==
    /\ cons_pc = "handle"
    /\ \E sent \in BOOLEAN :
          /\ decisions' = Append(decisions,
                                 [delivery |-> cursor,
                                  data |-> stream[cursor].val.data,
                                  result |-> Unwrap(process_result),
                                  called |-> called,
                                  call |-> handle_message_result_call(Unwrap(process_result)),
                                  sent |-> sent])
          /\ IF sent
             THEN /\ cons_pc' = "next"
                  /\ cons_result' = cons_result
             ELSE /\ cons_pc' = "done"
                  /\ cons_result' = Some(Err(MqError_from("lapin::Error")))
    /\ UNCHANGED << stream, cursor, process_result, called >>
    /\ UNCHANGED << macro, runtime, setup >>

NextConsume ==
    \/ BasicConsume
    \/ TakeDelivery
    \/ DeliveryFails
    \/ StreamEnds
    \/ Decode
    \/ Process
    \/ HandleMessageResult

SpecConsume == InitConsume /\ [][NextConsume]_vars

-----------------------------------------------------------------------------
(* mq::setup: TopologyBuilder and TopologyOps::apply_topology *)

\* the with_* calls made on one builder at most
MaxItems == 3

Queue(name) == [name |-> name]

Exchange(name, kind, durable) == [name |-> name, kind |-> kind, durable |-> durable]

Binding_ToQueue(src, target, routing_key) ==
    [variant |-> "ToQueue", src_exchange_name |-> src, target_queue_name |-> target,
     routing_key |-> routing_key]

Binding_ToExchange(src, target, routing_key) ==
    [variant |-> "ToExchange", src_exchange_name |-> src, target_exchange_name |-> target,
     routing_key |-> routing_key]

QueueItems == {Queue("test.queue"), Queue("other.queue")}

\* Exchange::builder(name).build() is Direct and durable
ExchangeItems ==
    {Exchange("test.exchange", "Direct", TRUE), Exchange("other.exchange", "Topic", FALSE)}

BindingItems ==
    {Binding_ToQueue("test.exchange", "test.queue", None),
     Binding_ToExchange("test.exchange", "other.exchange", Some("rk"))}

InitSetup ==
    /\ derive_input = MyEntityDecl
    /\ pc = "parsed"
    /\ derive_entity = None
    /\ tokens = None
    /\ output = None
    /\ run = 1
    /\ first_output = None
    /\ RuntimeInit

\* topology.queues.push(queue)
Builder_with_queue(queue) ==
    /\ top_pc = "building"
    /\ Len(builder_calls) < MaxItems
    /\ topology' = [topology EXCEPT !.queues = Append(@, queue)]
    /\ builder_calls' = Append(builder_calls, [kind |-> "queue", item |-> queue])
    /\ UNCHANGED << top_pc, top_i, applied, top_result >>
    /\ UNCHANGED << macro, runtime, consumer >>

\* topology.exchanges.push(exchange)
Builder_with_exchange(exchange) ==
    /\ top_pc = "building"
    /\ Len(builder_calls) < MaxItems
    /\ topology' = [topology EXCEPT !.exchanges = Append(@, exchange)]
    /\ builder_calls' = Append(builder_calls, [kind |-> "exchange", item |-> exchange])
    /\ UNCHANGED << top_pc, top_i, applied, top_result >>
    /\ UNCHANGED << macro, runtime, consumer >>

\* topology.bindings.push(binding)
Builder_with_binding(binding) ==
    /\ top_pc = "building"
    /\ Len(builder_calls) < MaxItems
    /\ topology' = [topology EXCEPT !.bindings = Append(@, binding)]
    /\ builder_calls' = Append(builder_calls, [kind |-> "binding", item |-> binding])
    /\ UNCHANGED << top_pc, top_i, applied, top_result >>
    /\ UNCHANGED << macro, runtime, consumer >>

\* build() hands the Topology to apply_topology, which enters its first loop
ApplyTopology ==
    /\ top_pc = "building"
    /\ top_pc' = "queues"
    /\ top_i' = 1
    /\ UNCHANGED << topology, builder_calls, applied, top_result >>
    /\ UNCHANGED << macro, runtime, consumer >>

\* Variant of ApplyStep: the Result of the call is dropped and the loop
\* goes on.
ApplyStepIgnoringError(kind, list) ==
    /\ top_i <= Len(list)
    /\ \E ok \in BOOLEAN :
          applied' = Append(applied, [kind |-> kind, item |-> list[top_i], ok |-> ok])
    /\ top_i' = top_i + 1
    /\ UNCHANGED << top_pc, top_result >>
    /\ UNCHANGED << topology, builder_calls >>
    /\ UNCHANGED << macro, runtime, consumer >>

\* one `self.with_*(&item).await?` of a loop: the call is made; Ok goes on
\* to the next item, Err(e) is returned by apply_topology
ApplyStep(kind, list) ==
    /\ top_i <= Len(list)
    /\ \E ok \in BOOLEAN :
          /\ applied' = Append(applied, [kind |-> kind, item |-> list[top_i], ok |-> ok])
          /\ IF ok
             THEN /\ top_i' = top_i + 1
                  /\ UNCHANGED << top_pc, top_result >>
             ELSE /\ top_pc' = "done"
                  /\ top_result' = Some(Err(MqError_from("lapin::Error")))
                  /\ top_i' = top_i
    /\ UNCHANGED << topology, builder_calls >>
    /\ UNCHANGED << macro, runtime, consumer >>

\* for queue in topology.queues.iter() { self.with_queue(&queue).await? }
ApplyQueue == top_pc = "queues" /\ ApplyStep("queue", topology.queues)

\* the loop over the queues is exhausted
QueuesDone ==
    /\ top_pc = "queues"
    /\ top_i > Len(topology.queues)
    /\ top_pc' = "exchanges"
    /\ top_i' = 1
    /\ UNCHANGED << topology, builder_calls, applied, top_result >>
    /\ UNCHANGED << macro, runtime, consumer >>

\* for exchange in topology.exchanges.iter() { self.with_exchange(..).await? }
ApplyExchange == top_pc = "exchanges" /\ ApplyStep("exchange", topology.exchanges)

ExchangesDone ==
    /\ top_pc = "exchanges"
    /\ top_i > Len(topology.exchanges)
    /\ top_pc' = "bindings"
    /\ top_i' = 1
    /\ UNCHANGED << topology, builder_calls, applied, top_result >>
    /\ UNCHANGED << macro, runtime, consumer >>

\* for binding in topology.bindings.iter() { self.with_binding(..).await? }
ApplyBinding == top_pc = "bindings" /\ ApplyStep("binding", topology.bindings)

\* the loop over the bindings is exhausted: Ok(())
BindingsDone ==
    /\ top_pc = "bindings"
    /\ top_i > Len(topology.bindings)
    /\ top_pc' = "done"
    /\ top_result' = Some(Ok("unit"))
    /\ UNCHANGED << topology, builder_calls, applied, top_i >>
    /\ UNCHANGED << macro, runtime, consumer >>

NextSetup ==
    \/ \E queue \in QueueItems : Builder_with_queue(queue)
    \/ \E exchange \in ExchangeItems : Builder_with_exchange(exchange)
    \/ \E binding \in BindingItems : Builder_with_binding(binding)
    \/ ApplyTopology
    \/ ApplyQueue
    \/ QueuesDone
    \/ ApplyExchange
    \/ ExchangesDone
    \/ ApplyBinding
    \/ BindingsDone

SpecSetup == InitSetup /\ [][NextSetup]_vars

-----------------------------------------------------------------------------
(* What the claims are stated over: the declaration as written *)

\* the extractor accepted the declaration
Accepted == IsSome(derive_entity) /\ Unwrap(derive_entity).ok

Descriptor == Unwrap(derive_entity).val

\* the token stream of this expansion exists
Generated == Accepted /\ IsSome(tokens) /\ Unwrap(tokens).ok

Items == Unwrap(tokens).val

\* the three generated items, and the two that carry bodies
Artifacts == << Items.repo_trait, Items.pgpool_impl, Items.tx_impl >>

Impls == << Items.pgpool_impl, Items.tx_impl >>

DeclFields == derive_input.fields

\* the positions of the fields that carry a key annotation
Tagged == {i \in 1..Len(DeclFields) : DeclFields[i].key # None}

\* the text of the identifiers the declarations use
IdentText(id) ==
    CASE id = Id_entity_id -> "entity_id"
      [] id = Id_name -> "name"
      [] id = Id_version -> "version"
      [] id = Id_color -> "color"
      [] id = Id_description -> "description"
      [] id = Id_Widget -> "Widget"
      [] id = Id_MyEntity -> "MyEntity"
      [] id = Id_my_entity -> "my_entity"

\* the key name a tagged field declares: the explicit name, else its identifier
DeclaredKeyName(i) ==
    IF DeclFields[i].key[1].name # None
    THEN DeclFields[i].key[1].name[1]
    ELSE IdentText(DeclFields[i].ident[1])

\* the unique flag a tagged field declares: an omitted flag is false
DeclaredUnique(i) == DeclFields[i].key[1].unique = << TRUE >>

\* the column a field declares: the name its column annotation gives, else
\* its identifier
DeclaredColumn(i) ==
    IF /\ DeclFields[i].column # None
       /\ ~DeclFields[i].column[1].malformed
       /\ DeclFields[i].column[1].name # None
    THEN DeclFields[i].column[1].name[1]
    ELSE IdentText(DeclFields[i].ident[1])

DeclaredKeyNames == {DeclaredKeyName(i) : i \in Tagged}

\* the positions of the fields tagged with key name k, in declaration order
RECURSIVE MembersUpTo(_, _)
MembersUpTo(k, n) ==
    IF n = 0 THEN << >>
    ELSE MembersUpTo(k, n - 1)
           \o (IF n \in Tagged /\ DeclaredKeyName(n) = k THEN << n >> ELSE << >>)

Members(k) == MembersUpTo(k, Len(DeclFields))

\* the key names in the order the scan of the fields first meets them
RECURSIVE FirstSeenUpTo(_)
FirstSeenUpTo(n) ==
    IF n = 0 THEN << >>
    ELSE LET before == FirstSeenUpTo(n - 1)
         IN  IF n \in Tagged /\ DeclaredKeyName(n) \notin Range(before)
             THEN Append(before, DeclaredKeyName(n))
             ELSE before

FirstSeenKeyNames == FirstSeenUpTo(Len(DeclFields))

\* the <entity> part of the operation names of this declaration
EntityPart ==
    LET shown == IF derive_input.entity.name # None
                 THEN derive_input.entity.name[1] ELSE derive_input.ident
    IN  CASE shown = Id_Widget -> "widget"
          [] shown = Id_MyEntity -> "my_entity"
          [] shown = Id_my_entity -> "my_entity"

FindName(k) == "find_" \o EntityPart \o "_by_" \o k

ListName(k) == "list_" \o EntityPart \o "_by_" \o k

\* the query text for a table and the columns of a key, n of them
PlaceholderText == << "$1", "$2", "$3", "$4", "$5", "$6", "$7", "$8", "$9" >>

RECURSIVE WhereText(_, _)
WhereText(cols, n) ==
    IF n = 1 THEN cols[1] \o " = " \o PlaceholderText[1]
    ELSE WhereText(cols, n - 1) \o " and " \o cols[n] \o " = " \o PlaceholderText[n]

QueryText(table, cols) ==
    "select * from " \o table \o " where " \o WhereText(cols, Len(cols))

-----------------------------------------------------------------------------
(* The claims *)

\* C1: an accepted declaration whose key-tagged fields carry K distinct key
\* names gives a descriptor with exactly K Keys, one per key name, and each
\* of the trait, the pool impl and the transaction impl holds exactly K
\* operations, one per key name; untagged fields give none.
C1_OneOperationPerKeyName ==
    Accepted =>
        LET K == Cardinality(DeclaredKeyNames)
        IN  /\ Len(Descriptor.keys) = K
            /\ {Descriptor.keys[i].name : i \in 1..Len(Descriptor.keys)} = DeclaredKeyNames
            /\ Generated =>
                 \A a \in 1..3 :
                    /\ Len(Artifacts[a].fns) = K
                    /\ \A k \in DeclaredKeyNames :
                          Cardinality({i \in 1..Len(Artifacts[a].fns) :
                                         Artifacts[a].fns[i].fn_name
                                            \in {FindName(k), ListName(k)}}) = 1

\* C1 witness: the output exists for a record with an untagged field and
\* two tagged fields that share one key name.
C1_Witness ==
    /\ pc = "emitted"
    /\ Cardinality(Tagged) = 2
    /\ Cardinality(DeclaredKeyNames) = 1
    /\ Len(DeclFields) = 3
    /\ Len(Unwrap(output).tx_impl.fns) = 1

\* C2: the Keys of the descriptor stand in the order in which the scan of
\* the fields, in declaration order, first meets each key name.
C2_KeysInFirstSeenOrder ==
    Accepted =>
        [i \in 1..Len(Descriptor.keys) |-> Descriptor.keys[i].name] = FirstSeenKeyNames

\* C3: a second expansion of the macro on the same declaration returns the
\* output of the first.
C3_SecondRunSameOutput ==
    (run = 2 /\ pc = "emitted") => output = first_output

\* the positions of the fields whose identifiers are the components of key
ComponentFields(key) ==
    {m \in 1..Len(DeclFields) :
        \E j \in 1..Len(key.components) :
            DeclFields[m].ident = << key.components[j].field_name >>}

\* C4: the unique flag of every Key is the OR of the unique flags declared
\* on the key annotations of its component fields, an omitted flag being
\* false.
C4_UniqueIsOrOfComponents ==
    Accepted =>
        \A i \in 1..Len(Descriptor.keys) :
            Descriptor.keys[i].unique
                <=> \E m \in ComponentFields(Descriptor.keys[i]) : DeclaredUnique(m)

\* C4 witness: a unique Key one of whose components is declared
\* unique = false.
C4_Witness ==
    /\ Accepted
    /\ \E i \in 1..Len(Descriptor.keys) :
          /\ Descriptor.keys[i].unique
          /\ Len(Descriptor.keys[i].components) >= 2
          /\ \E m \in ComponentFields(Descriptor.keys[i]) :
                DeclFields[m].key[1].unique = << FALSE >>

\* C5: the operation of a unique Key is named find_<entity>_by_<key>,
\* returns an Option and, in both impls, fetches with fetch_optional; the
\* operation of any other Key is named list_<entity>_by_<key>, returns a
\* Vec and fetches with fetch_all.
C5_NameShapeFetchAgree ==
    Generated =>
        \A i \in 1..Len(Descriptor.keys) :
            LET key == Descriptor.keys[i]
            IN  /\ \A a \in 1..3 :
                      LET f == Artifacts[a].fns[i]
                      IN  /\ (f.fn_name = FindName(key.name)) <=> key.unique
                          /\ (f.fn_name = ListName(key.name)) <=> ~key.unique
                          /\ (f.fn_rtn.result_of = "Option") <=> key.unique
                          /\ (f.fn_rtn.result_of = "Vec") <=> ~key.unique
                /\ \A a \in 1..2 :
                      LET body == Impls[a].fns[i].body
                      IN  /\ (body.fetch = "fetch_optional") <=> key.unique
                          /\ (body.fetch = "fetch_all") <=> ~key.unique

\* C5 witness: the output for a record with a unique and a non-unique Key.
C5_Witness ==
    /\ pc = "emitted"
    /\ \E i, j \in 1..Len(Descriptor.keys) :
          /\ Descriptor.keys[i].unique
          /\ ~Descriptor.keys[j].unique
          /\ Unwrap(output).pgpool_impl.fns[i].body.fetch = "fetch_optional"
          /\ Unwrap(output).tx_impl.fns[j].body.fetch = "fetch_all"

\* C6: the query of every Key, in both impls, is "select * from <table>
\* where <col_1> = $1 and ... and <col_n> = $n" over the descriptor's table
\* name and the column names of the Key's n >= 1 components.
C6_QueryText ==
    Generated =>
        \A i \in 1..Len(Descriptor.keys) :
            LET key == Descriptor.keys[i]
                cols == [j \in 1..Len(key.components) |-> key.components[j].column_name]
            IN  /\ Len(key.components) >= 1
                /\ \A a \in 1..2 :
                      Impls[a].fns[i].body.query = QueryText(Descriptor.table_name, cols)

\* C6 witness: the output holds the query of a Key of two components.
C6_Witness ==
    /\ pc = "emitted"
    /\ \E i \in 1..Len(Descriptor.keys) :
          /\ Len(Descriptor.keys[i].components) >= 2
          /\ Unwrap(output).pgpool_impl.fns[i].body.query
                = "select * from Widget where entity_id = $1 and name = $2"

\* C7: the components of every Key are the fields tagged with its name, in
\* declaration order, each once; the bind calls of its query follow them.
C7_ComponentsInDeclarationOrder ==
    Accepted =>
        \A i \in 1..Len(Descriptor.keys) :
            LET key == Descriptor.keys[i]
                ms == Members(key.name)
            IN  /\ [j \in 1..Len(key.components) |-> key.components[j].field_name]
                      = [j \in 1..Len(ms) |-> DeclFields[ms[j]].ident[1]]
                /\ Generated =>
                      \A a \in 1..2 :
                          Impls[a].fns[i].body.binds
                              = [j \in 1..Len(ms) |-> DeclFields[ms[j]].ident[1]]

\* C7 witness: a Key made of the first and the third field, the second
\* field being tagged with another name.
C7_Witness ==
    /\ pc = "emitted"
    /\ \E i \in 1..Len(Descriptor.keys) :
          /\ Members(Descriptor.keys[i].name) = << 1, 3 >>
          /\ 2 \in Tagged
          /\ Len(Descriptor.keys[i].components) = 2

\* C8: every operation has one parameter per component field, named after
\* the field and in declaration order; the i-th bind call passes the i-th
\* parameter, and the i-th condition of the query compares the column of
\* that field with $i.
C8_ParametersAndBinds ==
    Generated =>
        \A i \in 1..Len(Descriptor.keys) :
            LET ms == Members(Descriptor.keys[i].name)
                table == Descriptor.table_name
            IN  /\ \A a \in 1..3 :
                      /\ Len(Artifacts[a].fns[i].fn_args) = Len(ms)
                      /\ \A j \in 1..Len(ms) :
                            Artifacts[a].fns[i].fn_args[j].name = DeclFields[ms[j]].ident[1]
                /\ \A a \in 1..2 :
                      LET f == Impls[a].fns[i]
                      IN  /\ Len(f.body.binds) = Len(f.fn_args)
                          /\ \A j \in 1..Len(f.fn_args) : f.body.binds[j] = f.fn_args[j].name
                          /\ f.body.query
                                = QueryText(table, [j \in 1..Len(ms) |-> DeclaredColumn(ms[j])])

\* C8 witness: the output for a Key of two components, the first stored
\* in a column named otherwise than the field.
C8_Witness ==
    /\ pc = "emitted"
    /\ \E i \in 1..Len(Descriptor.keys) :
          LET f == Unwrap(output).tx_impl.fns[i]
          IN  /\ f.body.binds = << Id_entity_id, Id_name >>
              /\ f.body.query = "select * from my_entity where id = $1 and name = $2"

\* C9: the column name of every field is the name its column annotation
\* gives and, without one, the field's identifier; the condition of a key
\* names the column while the parameter keeps the identifier.
C9_ColumnNameDefault ==
    Accepted =>
        /\ Descriptor.columns
              = {FieldColumn(DeclFields[m].ident[1], DeclFields[m].ty, DeclaredColumn(m)) :
                    m \in 1..Len(DeclFields)}
        /\ \A i \in 1..Len(Descriptor.keys) :
              LET key == Descriptor.keys[i]
                  ms == Members(key.name)
              IN  /\ \A j \in 1..Len(key.components) :
                        key.components[j].column_name = DeclaredColumn(ms[j])
                  /\ (Generated /\ Len(ms) = 1) =>
                        \A a \in 1..2 :
                            /\ Impls[a].fns[i].body.query
                                  = "select * from " \o Descriptor.table_name \o " where "
                                      \o DeclaredColumn(ms[1]) \o " = $1"
                            /\ Impls[a].fns[i].fn_args[1].name = DeclFields[ms[1]].ident[1]

\* C9 witness: the output for the key of the field entity_id, stored in
\* column id.
C9_Witness ==
    /\ pc = "emitted"
    /\ \E i \in 1..Len(Descriptor.keys) :
          LET f == Unwrap(output).pgpool_impl.fns[i]
          IN  /\ f.body.query = "select * from my_entity where id = $1"
              /\ f.fn_args[1].name = Id_entity_id
    /\ \E m \in 1..Len(DeclFields) : DeclFields[m].column = None

\* C10: without a table_name override the table name of the descriptor and
\* of every query is the record identifier as written (Widget, not widget)
\* while the operation names use the snake-cased name; with an override it
\* is the override as written.
C10_TableNameVerbatim ==
    Accepted =>
        LET table == IF derive_input.entity.table_name # None
                     THEN derive_input.entity.table_name[1]
                     ELSE IdentText(derive_input.ident)
        IN  /\ Descriptor.table_name = table
            /\ (derive_input.ident = Id_Widget /\ derive_input.entity.table_name = None)
                  => Descriptor.table_name = "Widget" /\ Descriptor.table_name # "widget"
            /\ Generated =>
                  \A i \in 1..Len(Descriptor.keys), a \in 1..2 :
                      LET key == Descriptor.keys[i]
                      IN  /\ Impls[a].fns[i].body.query
                                = QueryText(table, [j \in 1..Len(key.components) |->
                                                      key.components[j].column_name])
                          /\ Impls[a].fns[i].fn_name \in {FindName(key.name), ListName(key.name)}

\* C10 witness: the output for record Widget without overrides: the query
\* names table Widget and the operation is find_widget_by_name.
C10_Witness ==
    /\ pc = "emitted"
    /\ derive_input.ident = Id_Widget
    /\ derive_input.entity = EntityAttr(None, None)
    /\ \E i \in 1..Len(Descriptor.keys) :
          LET f == Unwrap(output).pgpool_impl.fns[i]
          IN  /\ f.body.query = "select * from Widget where name = $1"
              /\ f.fn_name = "find_widget_by_name"

-----------------------------------------------------------------------------
(* Errors of the extraction *)

\* DeriveEntity::try_from has returned
Extracted == IsSome(derive_entity)

\* the error it returned
Failed == Extracted /\ ~Unwrap(derive_entity).ok

ErrorOf == Unwrap(derive_entity).err

\* some argument of the entity annotation or of a key annotation is unreadable
HasMalformedArgs ==
    \/ derive_input.entity.malformed
    \/ \E i \in 1..Len(DeclFields) :
          DeclFields[i].key # None /\ DeclFields[i].key[1].malformed

\* C11: a key-tagged field without explicit key name and without identifier
\* makes try_from fail with MissingKeyName and with no other error.
C11_AnonymousKeyMissingKeyName ==
    (/\ Extracted
     /\ derive_input.data = "Struct"
     /\ \E i \in Tagged :
           /\ DeclFields[i].ident = None
           /\ ~DeclFields[i].key[1].malformed
           /\ DeclFields[i].key[1].name = None)
        => Failed /\ ErrorOf = "MissingKeyName"

C13_AnonymousFieldFieldRequired ==
    (/\ Extracted
     /\ derive_input.data = "Struct"
     /\ \E i \in 1..Len(DeclFields) : DeclFields[i].ident = None)
        => Failed /\ ErrorOf = "FieldRequired"

\* C14: unreadable arguments of the entity annotation or of a key
\* annotation make the extraction fail with the darling error, and no
\* descriptor is produced.
C14_MalformedArgsDarlingError ==
    (Extracted /\ HasMalformedArgs) => Failed /\ ErrorOf = "DarlingError"

\* C14, amended: with unreadable arguments no descriptor is produced; the
\* error is the darling error on every struct, and StructRequired on an
\* enum or union, which is rejected before the annotations are read.
C14_MalformedArgsRejected ==
    (Extracted /\ HasMalformedArgs) =>
        /\ Failed
        /\ derive_input.data = "Struct" => ErrorOf = "DarlingError"
        /\ derive_input.data # "Struct" => ErrorOf = "StructRequired"

\* C14 witness: a named struct whose only fault is an unreadable key
\* annotation on its second field was rejected with the darling error.
C14_Witness ==
    /\ pc = "panicked"
    /\ derive_input.data = "Struct"
    /\ derive_input.style = "Named"
    /\ ~derive_input.entity.malformed
    /\ Len(DeclFields) >= 2
    /\ DeclFields[2].key = Some(MalformedKeyAttr)
    /\ DeclFields[1].key # None
    /\ ErrorOf = "DarlingError"

\* C15: an error of the extraction or of the synthesis ends the macro
\* before any token is returned; the macro returns tokens only when both
\* succeeded, and then all three items at once.
C15_NoOutputOnError ==
    /\ Failed => tokens = None /\ output = None
    /\ (IsSome(tokens) /\ ~Unwrap(tokens).ok) => output = None
    /\ pc = "panicked" => output = None
    /\ IsSome(output) =>
          /\ Generated
          /\ pc = "emitted"
          /\ Unwrap(output) = Items
          /\ DOMAIN Unwrap(output) = {"repo_trait", "pgpool_impl", "tx_impl"}

\* C15 witness: the macro panicked on a rejected declaration with nothing
\* returned.
C15_Witness ==
    /\ pc = "panicked"
    /\ Failed
    /\ ErrorOf = "FieldRequired" \/ ErrorOf = "DarlingError"
    /\ output = None

-----------------------------------------------------------------------------
(* The transactional impl at run time *)

Querying == {c \in Callers : call_pc[c] = "querying"}

\* C16: on one shared Mutex<Transaction> at most one call of the generated
\* transactional functions executes its query at a time, and a call
\* executes its query only while it holds the lock.
C16_MutualExclusion ==
    /\ \A c, d \in Querying : c = d
    /\ \A c \in Querying : lock_holder = Some(c)
    /\ pc = "emitted" =>
          \A i \in 1..Len(TxFns) :
              TxFns[i].body.lock /\ TxFns[i].body.executor = "&mut **tx"

\* C16 witness: one task is in its query with the lock, the other is
\* queued in lock().await of a generated function.
C16_Witness ==
    /\ call_pc[1] = "querying"
    /\ call_pc[2] = "waiting"
    /\ lock_holder = Some(1)
    /\ waiters = << 2 >>
    /\ call_fn[2] \in 1..Len(TxFns)

\* C17: the lock is released when the query ends, with Ok and with Err
\* alike; the functions never commit or roll back the transaction; under
\* fair scheduling every call waiting for the lock acquires it and every
\* call returns.
C17_ReleaseAndProgress ==
    /\ [](\A c \in Callers : lock_holder = Some(c) => call_pc[c] = "querying")
    /\ [](\A c \in Callers : call_pc[c] = "returned" =>
              call_result[c] \in {"Ok", "Err"} /\ lock_holder # Some(c))
    /\ [](tx_state = "open")
    /\ \A c \in Callers :
          /\ (call_pc[c] = "waiting") ~> (lock_holder = Some(c))
          /\ (call_pc[c] \in {"waiting", "querying"}) ~> (call_pc[c] = "returned")

\* C17 witness: a call has returned Err, the lock it held has passed to
\* the task that waited behind it.
C17_Witness ==
    /\ call_pc[1] = "returned"
    /\ call_result[1] = "Err"
    /\ call_pc[2] = "querying"
    /\ lock_holder = Some(2)
    /\ tx_state = "open"

-----------------------------------------------------------------------------
(* The two impls side by side *)

\* C18: for every key the impl for the transaction and the impl for the
\* pool have the same function name, parameters, return type, query text,
\* binds in the same order and fetch mode; they differ only in the type
\* they are for and in taking the lock before the query.
C18_TxAgreesWithPool ==
    Generated =>
        LET pg == Items.pgpool_impl
            tx == Items.tx_impl
        IN  /\ tx.trait_name = pg.trait_name
            /\ tx.impl_ty # pg.impl_ty
            /\ Len(tx.fns) = Len(pg.fns)
            /\ \A i \in 1..Len(pg.fns) :
                  /\ tx.fns[i].fn_name = pg.fns[i].fn_name
                  /\ tx.fns[i].fn_args = pg.fns[i].fn_args
                  /\ tx.fns[i].fn_rtn = pg.fns[i].fn_rtn
                  /\ tx.fns[i].body.query = pg.fns[i].body.query
                  /\ tx.fns[i].body.binds = pg.fns[i].body.binds
                  /\ tx.fns[i].body.fetch = pg.fns[i].body.fetch
                  /\ tx.fns[i].body.lock /\ ~pg.fns[i].body.lock
                  /\ tx.fns[i].body.executor = "&mut **tx"
                  /\ pg.fns[i].body.executor = "self"

\* C18 witness: both impls were emitted with two functions, one of them
\* over a composite key with a column override in its query.
C18_Witness ==
    /\ pc = "emitted"
    /\ Len(Items.tx_impl.fns) = 2
    /\ \E i \in 1..2 : Len(Items.tx_impl.fns[i].body.binds) = 2
    /\ \E i \in 1..2 : Items.tx_impl.fns[i].body.fetch = "fetch_optional"
    /\ \E i \in 1..Len(DeclFields) : DeclFields[i].column # None

-----------------------------------------------------------------------------
(* Parameter types and names *)

\* the declared type is the owned String, written short or by its path
DenotesString(ty) ==
    /\ ty.variant = "Path"
    /\ ty.segments \in {<< Id_String >>, << Id_std, Id_string, Id_String >>}

\* C19: the parameter of a key component is &str exactly when the declared
\* type of its field denotes String; a component of any other type T has
\* the parameter type &T, T unchanged.
C19_StrExactlyForString ==
    Generated =>
        \A i \in 1..Len(Descriptor.keys) :
            LET ms == Members(Descriptor.keys[i].name)
            IN  \A a \in 1..3 : \A j \in 1..Len(ms) :
                    LET declared == DeclFields[ms[j]].ty
                        param == Artifacts[a].fns[i].fn_args[j].ty.reference_to
                    IN  /\ (param = TypePath(<< Id_str >>)) <=> DenotesString(declared)
                        /\ ~DenotesString(declared) => param = declared

\* C20: the <entity> part of every operation name is the lower-snake-case
\* form of the name = override if the record has one, else of the record
\* identifier, whatever table_name says; the trait is named <record
\* identifier>Repo in the trait and in both impls.
C20_EntityPartAndTraitName ==
    Generated =>
        /\ \A a \in 1..3 :
              Artifacts[a].trait_name = IdentText(derive_input.ident) \o "Repo"
        /\ \A i \in 1..Len(Descriptor.keys) : \A a \in 1..3 :
              Artifacts[a].fns[i].fn_name
                  = (IF Descriptor.keys[i].unique THEN "find_" ELSE "list_")
                        \o EntityPart \o "_by_" \o Descriptor.keys[i].name

\* C20 witness: record Widget with name = MyEntity and no table_name (the
\* table is "Widget"): a function is named after my_entity, the trait
\* after Widget.
C20_Witness ==
    /\ pc = "emitted"
    /\ derive_input.ident = Id_Widget
    /\ derive_input.entity.name = Some(Id_MyEntity)
    /\ derive_input.entity.table_name = None
    /\ Descriptor.table_name = "Widget"
    /\ Unwrap(output).repo_trait.trait_name = "WidgetRepo"
    /\ \E i \in 1..Len(Descriptor.keys) :
          Unwrap(output).tx_impl.fns[i].fn_name = "find_my_entity_by_name"

-----------------------------------------------------------------------------
(* The MyEntity scenario *)

\* the functions of an artifact that carry the given name
FnsNamed(artifact, n) ==
    {i \in 1..Len(artifact.fns) : artifact.fns[i].fn_name = n}

MyEntityFnNames ==
    {"find_my_entity_by_id", "find_my_entity_by_name_version", "list_my_entity_by_color"}

\* C21: for tests::MyEntity the generator yields exactly three operations,
\* find_my_entity_by_id, find_my_entity_by_name_version(name, version) and
\* list_my_entity_by_color, in the trait and in both impls, and the query
\* of the second is "select * from my_entity where name = $1 and version = $2".
C21_MyEntityScenario ==
    (Generated /\ derive_input = MyEntityDecl) =>
        /\ \A a \in 1..3 :
              /\ Len(Artifacts[a].fns) = 3
              /\ {Artifacts[a].fns[i].fn_name : i \in 1..3} = MyEntityFnNames
              /\ \A i \in FnsNamed(Artifacts[a], "find_my_entity_by_name_version") :
                    /\ [j \in 1..2 |-> Artifacts[a].fns[i].fn_args[j].name]
                          = << Id_name, Id_version >>
                    /\ Artifacts[a].fns[i].fn_rtn.result_of = "Option"
              /\ \A i \in FnsNamed(Artifacts[a], "find_my_entity_by_id") :
                    /\ Len(Artifacts[a].fns[i].fn_args) = 1
                    /\ Artifacts[a].fns[i].fn_rtn.result_of = "Option"
              /\ \A i \in FnsNamed(Artifacts[a], "list_my_entity_by_color") :
                    /\ Len(Artifacts[a].fns[i].fn_args) = 1
                    /\ Artifacts[a].fns[i].fn_rtn.result_of = "Vec"
        /\ \A a \in 1..2 :
              \A i \in FnsNamed(Impls[a], "find_my_entity_by_name_version") :
                  Impls[a].fns[i].body.query
                      = "select * from my_entity where name = $1 and version = $2"

\* C21 witness: the macro returned the items for tests::MyEntity.
C21_Witness ==
    /\ pc = "emitted"
    /\ derive_input = MyEntityDecl
    /\ Len(Unwrap(output).repo_trait.fns) = 3
    /\ \E i \in 1..3 :
          Unwrap(output).pgpool_impl.fns[i].fn_name = "list_my_entity_by_color"

-----------------------------------------------------------------------------
(* The descriptor *)

\* C23: in every descriptor every Key has at least one component, every
\* component of every Key is the FieldColumn the descriptor records for a
\* declared field, and no two FieldColumns of the descriptor carry the same
\* field identifier.
C23_DescriptorWellFormed ==
    Accepted =>
        /\ \A i \in 1..Len(Descriptor.keys) :
              /\ Len(Descriptor.keys[i].components) >= 1
              /\ \A j \in 1..Len(Descriptor.keys[i].components) :
                    LET component == Descriptor.keys[i].components[j]
                    IN  /\ component \in Descriptor.columns
                        /\ \E m \in 1..Len(DeclFields) :
                              DeclFields[m].ident = Some(component.field_name)
        /\ \A c1, c2 \in Descriptor.columns :
              c1.field_name = c2.field_name => c1 = c2

\* C23 witness: a descriptor for two fields of one identifier, both
\* key-tagged, the first with a column annotation: one FieldColumn, and the
\* one Key holds it twice.
C23_Witness ==
    /\ Accepted
    /\ derive_input \in DuplicateFieldStructs
    /\ DeclFields[1].column # None
    /\ Cardinality(Descriptor.columns) = 1
    /\ \E i \in 1..Len(Descriptor.keys) : Len(Descriptor.keys[i].components) = 2

\* the places (key, component) where the field of position m occurs
PlacesOf(m) ==
    {<< i, j >> \in (1..Len(Descriptor.keys)) \X (1..Len(DeclFields)) :
        /\ j <= Len(Descriptor.keys[i].components)
        /\ Descriptor.keys[i].components[j].field_name = DeclFields[m].ident[1]}

RECURSIVE ComponentCount(_, _)
ComponentCount(keys, n) ==
    IF n = 0 THEN 0 ELSE ComponentCount(keys, n - 1) + Len(keys[n].components)

\* C24: every key-tagged field is a component of exactly one Key, the one
\* named by its explicit key name or else by its identifier; no untagged
\* field is a component of any Key; the components of all Keys together are
\* as many as the key-tagged fields.
C24_GroupingIsPartition ==
    Accepted =>
        /\ \A m \in Tagged :
              /\ Cardinality(PlacesOf(m)) = 1
              /\ \A place \in PlacesOf(m) :
                    Descriptor.keys[place[1]].name = DeclaredKeyName(m)
        /\ \A m \in (1..Len(DeclFields)) \ Tagged : PlacesOf(m) = {}
        /\ ComponentCount(Descriptor.keys, Len(Descriptor.keys)) = Cardinality(Tagged)

\* C24 witness: a descriptor for three fields, two tagged into one key by
\* an explicit name and by the identifier, one untagged.
C24_Witness ==
    /\ Accepted
    /\ Len(DeclFields) = 3
    /\ Tagged = {1, 2}
    /\ DeclFields[1].key[1].name = Some("name")
    /\ DeclFields[2].key[1].name = None
    /\ Len(Descriptor.keys) = 1
    /\ Len(Descriptor.keys[1].components) = 2

\* the fields whose column annotation is absent or gives no name
NoColumnName ==
    {m \in 1..Len(DeclFields) :
        \/ DeclFields[m].column = None
        \/ DeclFields[m].column[1].malformed
        \/ DeclFields[m].column[1].name = None}

\* C25: extraction never fails because of a column annotation: a named
\* struct whose entity and key annotations are readable is accepted, and a
\* field whose column annotation is absent or cannot be read has its
\* identifier as column name.
C25_ColumnAnnotationNeverFails ==
    /\ (/\ Extracted
        /\ derive_input.data = "Struct"
        /\ derive_input.style = "Named"
        /\ ~HasMalformedArgs) => Accepted
    /\ Failed => ErrorOf \in {"StructRequired", "DarlingError"}
    /\ Accepted =>
          \A m \in NoColumnName :
              \E c \in Descriptor.columns :
                  /\ c.field_name = DeclFields[m].ident[1]
                  /\ c.column_name = IdentText(DeclFields[m].ident[1])

\* C25 witness: a descriptor for a key-tagged field whose column
\* annotation cannot be read; the key's component has the identifier as
\* column name.
C25_Witness ==
    /\ Accepted
    /\ \E m \in Tagged :
          /\ DeclFields[m].column = Some(MalformedColumnAttr)
          /\ \E i \in 1..Len(Descriptor.keys) :
                /\ Descriptor.keys[i].components[1].field_name = DeclFields[m].ident[1]
                /\ Descriptor.keys[i].components[1].column_name
                      = IdentText(DeclFields[m].ident[1])

-----------------------------------------------------------------------------
(* What the generated functions return *)

Returned == {c \in Callers : call_pc[c] = "returned"}

\* C22: a unique-key lookup that matches no row returns Ok(None) and a
\* non-unique lookup that matches no row returns Ok of the empty sequence,
\* never an error; when the storage call fails the function returns that
\* very error; in the impl for the pool and in the impl for the transaction.
C22_StorageOutcomePassedThrough ==
    \A c \in Returned :
        LET key == Descriptor.keys[call_fn[c]]
        IN  /\ call_impl[c] \in {"pool", "tx"}
            /\ storage[c].kind \in {"rows", "error"}
            /\ storage[c].kind = "rows" =>
                  /\ call_value[c].ok
                  /\ (key.unique /\ storage[c].rows = << >>) =>
                        call_value[c] = Ok(None)
                  /\ (key.unique /\ storage[c].rows # << >>) =>
                        call_value[c] = Ok(Some(storage[c].rows[1]))
                  /\ ~key.unique => call_value[c] = Ok(storage[c].rows)
            /\ storage[c].kind = "error" =>
                  call_value[c] = Err(storage[c].error)

\* C22 witness: a lookup by a unique key on the pool has returned Ok(None)
\* for no row, and a lookup on the transaction has returned the error of
\* its failed query.
C22_Witness ==
    /\ call_pc[1] = "returned"
    /\ call_impl[1] = "pool"
    /\ Descriptor.keys[call_fn[1]].unique
    /\ storage[1] = Rows(0)
    /\ call_value[1] = Ok(None)
    /\ call_pc[2] = "returned"
    /\ call_impl[2] = "tx"
    /\ storage[2] = Failure("Database")
    /\ call_value[2] = Err("Database")

-----------------------------------------------------------------------------
(* Consumer::consume *)

\* the deliveries consume has taken from the stream
TakenDeliveries == {i \in 1..cursor : stream[i].ok}

DeliveryInHand == cons_pc \in {"decode", "process", "handle"}

\* C26: in consume every delivery gets exactly one ack/nack call before
\* the next delivery is taken: ack iff the processor returned Ok, nack with
\* requeue iff it returned TemporaryError, nack without requeue iff it
\* returned PermanentError or the payload is no Envelope (the processor is
\* then not called); consume returns Ok when the stream ends, and returns
\* the error at once when a delivery or an ack/nack fails.
C26_OneDecisionPerDelivery ==
    /\ Len(decisions) = Cardinality(TakenDeliveries) - (IF DeliveryInHand THEN 1 ELSE 0)
    /\ \A k \in 1..Len(decisions) :
          LET d == decisions[k]
          IN  /\ d.delivery \in TakenDeliveries
              /\ \A j \in 1..(k - 1) : decisions[j].delivery < d.delivery
              /\ (d.call = [op |-> "ack", requeue |-> None])
                    <=> (d.called /\ d.result = Ok("unit"))
              /\ (d.call = [op |-> "nack", requeue |-> Some(TRUE)])
                    <=> (d.called /\ d.result = Err("TemporaryError"))
              /\ (d.call = [op |-> "nack", requeue |-> Some(FALSE)])
                    <=> ((d.called /\ d.result = Err("PermanentError"))
                            \/ d.data = "garbage")
              /\ d.called <=> d.data = "envelope"
              /\ ~d.sent => /\ k = Len(decisions)
                            /\ cons_pc = "done"
                            /\ cons_result = Some(Err(MqError_from("lapin::Error")))
    /\ \A i \in 1..cursor :
          ~stream[i].ok => /\ i = cursor
                           /\ cons_pc = "done"
                           /\ cons_result = Some(Err(MqError_from(stream[i].err)))
    /\ cons_result = Some(Ok("unit")) =>
          /\ cursor = Len(stream)
          /\ Len(decisions) = Len(stream)
          /\ \A k \in 1..Len(decisions) : decisions[k].sent
    /\ (cons_pc = "done") <=> (cons_result # None)
    /\ (cons_result # None /\ ~Unwrap(cons_result).ok) =>
          \/ cursor = 0 /\ decisions = << >>
          \/ cursor > 0 /\ ~stream[cursor].ok
          \/ decisions # << >> /\ ~decisions[Len(decisions)].sent

\* C26 witness: the first delivery was no Envelope and was nacked without
\* requeue, the second failed temporarily and its nack with requeue
\* failed: consume returned that error.
C26_Witness ==
    /\ cons_pc = "done"
    /\ Len(decisions) = 2
    /\ decisions[1].data = "garbage"
    /\ ~decisions[1].called
    /\ decisions[1].call = [op |-> "nack", requeue |-> Some(FALSE)]
    /\ decisions[1].sent
    /\ decisions[2].result = Err("TemporaryError")
    /\ decisions[2].call = [op |-> "nack", requeue |-> Some(TRUE)]
    /\ ~decisions[2].sent
    /\ cons_result = Some(Err(MqError_from("lapin::Error")))

-----------------------------------------------------------------------------
(* apply_topology *)

\* the items the builder calls of one kind added, in the order of the calls
RECURSIVE AddedUpTo(_, _)
AddedUpTo(kind, n) ==
    IF n = 0 THEN << >>
    ELSE AddedUpTo(kind, n - 1)
           \o (IF builder_calls[n].kind = kind
               THEN << builder_calls[n].item >> ELSE << >>)

Added(kind) == AddedUpTo(kind, Len(builder_calls))

\* the calls a complete application makes: queues, exchanges, bindings
TopologyPlan ==
    [k \in 1..Len(Added("queue")) |-> [kind |-> "queue", item |-> Added("queue")[k]]]
    \o [k \in 1..Len(Added("exchange")) |->
            [kind |-> "exchange", item |-> Added("exchange")[k]]]
    \o [k \in 1..Len(Added("binding")) |->
            [kind |-> "binding", item |-> Added("binding")[k]]]

\* C27: apply_topology declares all queues, then all exchanges, then all
\* bindings, each list in the order the builder calls added its items, and
\* stops at the first failing call, returning its error: nothing is applied
\* after a failure, and no binding before every queue and exchange was
\* declared successfully.
C27_ApplyInOrderStopAtFailure ==
    /\ topology.queues = Added("queue")
    /\ topology.exchanges = Added("exchange")
    /\ topology.bindings = Added("binding")
    /\ Len(applied) <= Len(TopologyPlan)
    /\ \A k \in 1..Len(applied) :
          /\ applied[k].kind = TopologyPlan[k].kind
          /\ applied[k].item = TopologyPlan[k].item
          /\ ~applied[k].ok =>
                /\ k = Len(applied)
                /\ top_pc = "done"
                /\ top_result = Some(Err(MqError_from("lapin::Error")))
          /\ applied[k].kind = "binding" =>
                /\ k > Len(topology.queues) + Len(topology.exchanges)
                /\ \A j \in 1..(k - 1) : applied[j].ok
    /\ top_result = Some(Ok("unit")) =>
          /\ Len(applied) = Len(TopologyPlan)
          /\ \A k \in 1..Len(applied) : applied[k].ok
    /\ (top_result # None /\ ~Unwrap(top_result).ok) =>
          applied # << >> /\ ~applied[Len(applied)].ok
    /\ (top_pc = "done") <=> (top_result # None)

\* C27 witness: the builder was given a binding, then an exchange, then a
\* queue; the queue was declared, the exchange failed, the binding was
\* never applied and the error was returned.
C27_Witness ==
    /\ top_pc = "done"
    /\ [k \in 1..Len(builder_calls) |-> builder_calls[k].kind]
          = << "binding", "exchange", "queue" >>
    /\ [k \in 1..Len(applied) |-> << applied[k].kind, applied[k].ok >>]
          = << << "queue", TRUE >>, << "exchange", FALSE >> >>
    /\ top_result = Some(Err(MqError_from("lapin::Error")))

====
